---- MODULE Spec2Model ----
(***************************************************************************)
(* Model of ninja_extra/controllers/route/__init__.py: the Route           *)
(* descriptor, Route._create_route_function and the decorator factories    *)
(* (Route.get/post/put/patch/delete/generic).                              *)
(*                                                                         *)
(* Python values are records tagged by a "kind" field.  A decorator        *)
(* factory call captures a configuration (the closure `decorator`);        *)
(* applying the closure to a handler runs _create_route_function, which    *)
(* either returns a route function or raises.                              *)
(***************************************************************************)
EXTENDS Integers, Sequences, FiniteSets, TLC

VARIABLES
    decorator,  \* the closure returned by a factory call, or NoDecorator
    routes,     \* handler name -> route function returned for that handler
    last        \* outcome of the most recent application of the closure,
                \* with the statements that application executed

vars == <<decorator, routes, last>>

(***************************************************************************)
(* Bounds of the exploration.                                              *)
(***************************************************************************)
MaxMethods == 2   \* longest `methods` list drawn
MaxItems == 3     \* longest `response` list drawn
MaxRoutes == 2    \* handlers decorated with one closure

(***************************************************************************)
(* Constants of the program.                                               *)
(***************************************************************************)
GET == "GET"
POST == "POST"
PUT == "PUT"
PATCH == "PATCH"
DELETE == "DELETE"
ROUTE_METHODS == <<POST, PUT, PATCH, DELETE, GET>>

NOT_SET == [kind |-> "NOT_SET"]
None == [kind |-> "None"]
NoneType == [kind |-> "NoneType"]

(***************************************************************************)
(* Helpers on sequences and mappings.                                      *)
(***************************************************************************)
Range(s) == {s[i] : i \in 1..Len(s)}

SeqsUpTo(S, n) == UNION {[1..k -> S] : k \in 0..n}

\* every list a Python `list(a_set)` can produce: the iteration order of a
\* set of strings is not fixed (string hashing is randomised per process)
ListsOfSet(S) ==
    {s \in [1..Cardinality(S) -> S] : Range(s) = S}

EmptyDict == [k \in {} |-> "none"]

\* dict.update(other): keys of `other` overwrite, the rest is kept
DictUpdateBroken(d, other) ==
    [k \in (DOMAIN d) \cup (DOMAIN other) |->
        IF k \in DOMAIN d THEN d[k] ELSE other[k]]

DictUpdate(d, other) ==
    [k \in (DOMAIN d) \cup (DOMAIN other) |->
        IF k \in DOMAIN other THEN other[k] ELSE d[k]]

(***************************************************************************)
(* str.upper on the method tokens that are drawn.                          *)
(***************************************************************************)
StrTokens == {"GET", "post", "FOO", "bar"}

upper(s) ==
    CASE s = "post" -> "POST"
      [] s = "bar" -> "BAR"
      [] s = "get" -> "GET"
      [] OTHER -> s

\* an entry of a methods list: a str, or a value without .upper()
StrEntry(s) == [type |-> "str", text |-> s]
IntEntry == [type |-> "int", text |-> "1"]
MethodEntries == {StrEntry(s) : s \in StrTokens} \cup {IntEntry}

Strs(seq) == [i \in 1..Len(seq) |-> StrEntry(seq[i])]

(***************************************************************************)
(* Response values.                                                        *)
(***************************************************************************)
Schema(n) == [kind |-> "schema", name |-> n]
\* a ControllerResponse subclass (its type is ControllerResponseMeta)
TypedClass(c, s) == [kind |-> "typed_class", status_code |-> c, schema |-> s]
\* an instance of a ControllerResponse subclass
TypedInstance(c, s) == [kind |-> "typed_instance", status_code |-> c, schema |-> s]
Dict(m) == [kind |-> "dict", map |-> m]
Tuple(t) == [kind |-> "tuple", elems |-> t]
List(items) == [kind |-> "list", items |-> items]

IsControllerResponse_class_only(x) == x.kind = "typed_class"

\* inspect.isclass(x) and type(x) == ControllerResponseMeta, or
\* isinstance(x, ControllerResponse)
IsControllerResponse(x) == x.kind \in {"typed_class", "typed_instance"}

get_schema(x) == x.schema

status_code(x) == x.status_code

(***************************************************************************)
(* Outcomes of a call: a returned value or a raised exception.             *)
(***************************************************************************)
Returned(v) == [status |-> "returned", value |-> v]
Raised(e, m) == [status |-> "raised", exc |-> e, msg |-> m]

RouteInvalidParameterException == "RouteInvalidParameterException"
AttributeError == "AttributeError"
IndexError == "IndexError"

MethodsMustBeList == [text |-> "methods must be a list"]
\* f"Method {','.join(not_valid_methods)} not allowed"
MethodNotAllowed(joined) == [text |-> "Method {} not allowed", joined |-> joined]
\* f"Invalid response configuration: {response}"
InvalidResponse(response) ==
    [text |-> "Invalid response configuration: {}", response |-> response]

(***************************************************************************)
(* Route.__init__, the methods checks (lines 50-58).                       *)
(***************************************************************************)
\* a methods argument: a list, a tuple, a single str, or None
MethodsArg(k, items) == [kind |-> k, items |-> items]

isinstance_sequence(x) == x.kind \in {"list", "tuple"}

\* isinstance(x, list)
isinstance_list(x) == x.kind = "list"

\* m.upper() exists only on str entries
HasUpper(items) == \A i \in 1..Len(items) : items[i].type = "str"

UpperAll_as_given(items) == [i \in 1..Len(items) |-> items[i].text]

\* list(map(lambda m: m.upper(), methods))
UpperAll(items) == [i \in 1..Len(items) |-> upper(items[i].text)]

not_valid_methods_first_only(methods) ==
    LET bad == {i \in 1..Len(methods) : methods[i] \notin Range(ROUTE_METHODS)}
    IN  IF bad = {} THEN {}
        ELSE {methods[CHOOSE i \in bad : \A j \in bad : i <= j]}

\* set(methods) - set(ROUTE_METHODS)
not_valid_methods(methods) == Range(methods) \ Range(ROUTE_METHODS)

(***************************************************************************)
(* Route.__init__, the response normalisation (lines 60-82).               *)
(***************************************************************************)
\* the loop over a response list, from item i on, with the mapping built so
\* far; a tuple shorter than two raises IndexError at item[1]
RECURSIVE response_computed(_, _, _)
response_computed(items, i, acc) ==
    IF i > Len(items) THEN Returned(acc)
    ELSE LET item == items[i] IN
        IF IsControllerResponse(item)
        THEN response_computed(items, i + 1,
                DictUpdate(acc, [k \in {status_code(item)} |-> get_schema(item)]))
        ELSE IF item.kind = "dict"
        THEN response_computed(items, i + 1, DictUpdate(acc, item.map))
        ELSE IF item.kind = "tuple"
        THEN IF Len(item.elems) < 2
             THEN Raised(IndexError, [text |-> "tuple index out of range"])
             ELSE response_computed(items, i + 1,
                    DictUpdate(acc, [k \in {item.elems[1]} |-> item.elems[2]]))
        ELSE response_computed(items, i + 1, acc)

normalize_response_lenient(response) ==
    IF IsControllerResponse(response)
    THEN Returned(Dict([k \in {status_code(response)} |-> get_schema(response)]))
    ELSE IF response.kind = "list"
    THEN LET c == response_computed(response.items, 1, EmptyDict) IN
         IF c.status = "raised" THEN c
         ELSE Returned(Dict(c.value))
    ELSE Returned(response)

normalize_response_iterates_dict(response) ==
    IF IsControllerResponse(response)
    THEN Returned(Dict([k \in {status_code(response)} |-> get_schema(response)]))
    ELSE IF response.kind \in {"list", "dict"}
    THEN LET c == IF response.kind = "list"
                  THEN response_computed(response.items, 1, EmptyDict)
                  ELSE Returned(EmptyDict)
         IN
         IF c.status = "raised" THEN c
         ELSE IF c.value = EmptyDict
         THEN Raised(RouteInvalidParameterException, InvalidResponse(response))
         ELSE Returned(Dict(c.value))
    ELSE Returned(response)

\* lines 60-82: the value stored as the route's response, or the exception
normalize_response(response) ==
    IF IsControllerResponse(response)
    THEN Returned(Dict([k \in {status_code(response)} |-> get_schema(response)]))
    ELSE IF response.kind = "list"
    THEN LET c == response_computed(response.items, 1, EmptyDict) IN
         IF c.status = "raised" THEN c
         ELSE IF c.value = EmptyDict
         THEN Raised(RouteInvalidParameterException, InvalidResponse(response))
         ELSE Returned(Dict(c.value))
    ELSE Returned(response)

(***************************************************************************)
(* Route.__init__ as a whole.                                              *)
(***************************************************************************)
\* ninja_extra.schemas.RouteParameter: the record of the route's parameters
RouteParameter(path, methods, response) ==
    [path |-> path, methods |-> methods, response |-> response]

\* ninja.signature.is_async(view_func)
is_async(view_func) == view_func.coroutine

Route__init__response_first(view_func, path, methods, response, permissions, order) ==
    LET r == normalize_response(response) IN
    IF r.status = "raised" THEN r
    ELSE IF ~isinstance_list(methods)
    THEN Raised(RouteInvalidParameterException, MethodsMustBeList)
    ELSE IF ~HasUpper(methods.items)
    THEN Raised(AttributeError, [text |-> "object has no attribute 'upper'"])
    ELSE LET ms == UpperAll(methods.items) IN
        IF not_valid_methods(ms) # {}
        THEN Raised(RouteInvalidParameterException, MethodNotAllowed(order))
        ELSE Returned([route_params |-> RouteParameter(path, ms, r.value),
                       is_async |-> is_async(view_func),
                       permissions |-> permissions,
                       view_func |-> view_func])

\* Route(view_func, path=, methods=, response=, permissions=); `order` is
\* the iteration order of the set of rejected verbs
Route__init__(view_func, path, methods, response, permissions, order) ==
    IF ~isinstance_list(methods)
    THEN Raised(RouteInvalidParameterException, MethodsMustBeList)
    ELSE IF ~HasUpper(methods.items)
    THEN Raised(AttributeError, [text |-> "object has no attribute 'upper'"])
    ELSE LET ms == UpperAll(methods.items) IN
        IF not_valid_methods(ms) # {}
        THEN Raised(RouteInvalidParameterException, MethodNotAllowed(order))
        ELSE LET r == normalize_response(response) IN
            IF r.status = "raised" THEN r
            ELSE Returned([route_params |-> RouteParameter(path, ms, r.value),
                           is_async |-> is_async(view_func),
                           permissions |-> permissions,
                           view_func |-> view_func])

\* the orders in which Route.__init__ may list the rejected verbs
RejectedOrders(methods) ==
    IF isinstance_list(methods) /\ HasUpper(methods.items)
    THEN ListsOfSet(not_valid_methods(UpperAll(methods.items)))
    ELSE {<<>>}

(***************************************************************************)
(* Handlers: the functions a decorator is applied to.                      *)
(***************************************************************************)
Absent == [kind |-> "absent"]
\* a return annotation written as a string, naming a schema of the module
ForwardRef(n) == [kind |-> "forward_ref", name |-> n]

Handler(n, c, a) == [name |-> n, coroutine |-> c, annotation |-> a]

Handlers ==
    { Handler("list_items", FALSE, Absent),
      Handler("get_item", FALSE, Schema("SchemaA")),
      Handler("create_item", TRUE, TypedClass(404, "SchemaC")),
      Handler("delete_item", FALSE, None),
      Handler("update_item", TRUE, ForwardRef("SchemaB")) }

HandlerNames == {h.name : h \in Handlers}

\* typing.get_type_hints(view_func).get("return"): None when the handler has
\* no return annotation, NoneType for `-> None`, the named object for a
\* string annotation, the annotation itself otherwise
return_hint(view_func) ==
    LET a == view_func.annotation IN
    CASE a.kind = "absent" -> None
      [] a.kind = "None" -> NoneType
      [] a.kind = "forward_ref" -> Schema(a.name)
      [] OTHER -> a

\* truth value of a hint: only the None of a missing key is false
Truthy(x) == x.kind # "None"

(***************************************************************************)
(* Route._create_route_function (lines 128-153).                           *)
(***************************************************************************)
RouteFunction == "RouteFunction"
AsyncRouteFunction == "AsyncRouteFunction"

resolve_response_keep_unset(view_func, response) == response

\* lines 128-129
resolve_response(view_func, response) ==
    IF response = NOT_SET
    THEN IF Truthy(return_hint(view_func)) THEN return_hint(view_func) ELSE NOT_SET
    ELSE response

route_function_class_always_sync(route_obj) == RouteFunction

\* lines 149-151
route_function_class(route_obj) ==
    IF route_obj.is_async THEN AsyncRouteFunction ELSE RouteFunction

_create_route_function_defaults(view_func, path, methods, response, permissions, order) ==
    LET r == Route__init__(view_func, path, methods,
                           resolve_response(view_func, response),
                           permissions, order)
        d == IF r.status = "raised"
             THEN [route_params |-> RouteParameter(path, <<>>, NOT_SET),
                   is_async |-> is_async(view_func),
                   permissions |-> permissions,
                   view_func |-> view_func]
             ELSE r.value
    IN  Returned([class |-> route_function_class(d), route |-> d])

_create_route_function(view_func, path, methods, response, permissions, order) ==
    LET r == Route__init__(view_func, path, methods,
                           resolve_response(view_func, response),
                           permissions, order)
    IN  IF r.status = "raised" THEN r
        ELSE Returned([class |-> route_function_class(r.value),
                       route |-> r.value])

\* the statements one call of _create_route_function executes, in order, up
\* to the one that raises: line 129, then Route.__init__ (lines 50, 53, 54,
\* 60-82, 84, 102), then lines 149-151
evaluation_steps(view_func, methods, response) ==
    LET hints == IF response = NOT_SET THEN <<"get_type_hints">> ELSE <<>>
        resolved == resolve_response(view_func, response)
    IN  hints \o
        ( IF ~isinstance_list(methods)
          THEN <<"isinstance_list">>
          ELSE IF ~HasUpper(methods.items)
          THEN <<"isinstance_list", "upper">>
          ELSE IF not_valid_methods(UpperAll(methods.items)) # {}
          THEN <<"isinstance_list", "upper", "not_valid_methods">>
          ELSE IF normalize_response(resolved).status = "raised"
          THEN <<"isinstance_list", "upper", "not_valid_methods",
                 "normalize_response">>
          ELSE <<"isinstance_list", "upper", "not_valid_methods",
                 "normalize_response", "RouteParameter", "is_async",
                 "route_function_class">> )

\* the outcome of a call together with the statements it executed
WithSteps(out, steps) ==
    IF out.status = "returned"
    THEN [status |-> out.status, value |-> out.value, steps |-> steps]
    ELSE [status |-> out.status, exc |-> out.exc, msg |-> out.msg,
          steps |-> steps]

(***************************************************************************)
(* The decorator factories and the closures they return.                   *)
(***************************************************************************)
NoDecorator == [factory |-> "none"]

Closure(f, path, methods, response, permissions) ==
    [factory |-> f, path |-> path, methods |-> methods,
     response |-> response, permissions |-> permissions]

methods_of_get_wrong == MethodsArg("list", Strs(<<POST>>))

\* the methods argument each per-verb closure passes on
methods_of_get == MethodsArg("list", Strs(<<GET>>))
methods_of_post == MethodsArg("list", Strs(<<POST>>))
methods_of_put == MethodsArg("list", Strs(<<PUT>>))
methods_of_patch == MethodsArg("list", Strs(<<PATCH>>))
methods_of_delete == MethodsArg("list", Strs(<<DELETE>>))

(***************************************************************************)
(* The arguments drawn.                                                    *)
(***************************************************************************)
Paths == {"", "/items"}
PermissionValues == {"None", "IsAuthenticated"}
\* path and permissions are passed through together
Extras == {<<"", "None">>, <<"/items", "IsAuthenticated">>}

MethodsValues ==
    {MethodsArg("list", s) : s \in SeqsUpTo(MethodEntries, MaxMethods)}
    \cup {MethodsArg("tuple", Strs(<<GET>>)),
          MethodsArg("tuple", Strs(<<"FOO">>)),
          MethodsArg("str", Strs(<<GET>>)),
          MethodsArg("None", <<>>)}

FewMethodsValues ==
    {MethodsArg("list", <<IntEntry>>),
     MethodsArg("list", Strs(<<"post", GET>>)),
     MethodsArg("list", Strs(<<"FOO">>)),
     MethodsArg("tuple", Strs(<<GET>>))}

D200A == [k \in {200} |-> "SchemaA"]
D200B == [k \in {200} |-> "SchemaB"]

ResponseItems ==
    {TypedClass(404, "SchemaC"),
     Dict(D200A), Dict(D200B),
     Tuple(<<201, "SchemaB">>), Tuple(<<200>>),
     None}

SingleResponses ==
    {NOT_SET, None, Schema("SchemaA"),
     TypedClass(404, "SchemaC"), TypedInstance(201, "SchemaB"),
     TypedInstance(404, "SchemaC"),
     Dict(D200A), Dict(EmptyDict), Tuple(<<201, "SchemaB">>), Tuple(<<>>)}

ResponseValues ==
    SingleResponses \cup {List(s) : s \in SeqsUpTo(ResponseItems, MaxItems)}

\* the responses the factories other than get and generic are called with:
\* their closures differ from get's in the verb only
ShorterResponseValues ==
    SingleResponses \cup {List(s) : s \in SeqsUpTo(ResponseItems, MaxItems - 1)}

FewResponseValues ==
    {NOT_SET, List(<<>>), List(<<Tuple(<<200>>)>>), List(<<None, Dict(D200A)>>)}

\* the (methods, response) pairs the generic factory is called with
GenericArgs ==
    (MethodsValues \X FewResponseValues) \cup (FewMethodsValues \X ResponseValues)

(***************************************************************************)
(* The state machine.                                                      *)
(***************************************************************************)
NoCall == [status |-> "none"]
NoRoutes == [n \in {} |-> NoCall]

Init ==
    /\ decorator = NoDecorator
    /\ routes = NoRoutes
    /\ last = NoCall

\* a factory call is the first step of a decoration
Unconfigured == decorator = NoDecorator

Configure(f, path, methods, response, permissions) ==
    /\ decorator' = Closure(f, path, methods, response, permissions)
    /\ UNCHANGED <<routes, last>>

\* Route.get(path, response=, permissions=)
get ==
    /\ Unconfigured
    /\ \E e \in Extras, r \in ResponseValues :
        Configure("get", e[1], methods_of_get, r, e[2])

\* Route.post(path, response=, permissions=)
post ==
    /\ Unconfigured
    /\ \E e \in Extras, r \in ShorterResponseValues :
        Configure("post", e[1], methods_of_post, r, e[2])

\* Route.put(path, response=, permissions=)
put ==
    /\ Unconfigured
    /\ \E e \in Extras, r \in ShorterResponseValues :
        Configure("put", e[1], methods_of_put, r, e[2])

\* Route.patch(path, response=, permissions=)
patch ==
    /\ Unconfigured
    /\ \E e \in Extras, r \in ShorterResponseValues :
        Configure("patch", e[1], methods_of_patch, r, e[2])

\* Route.delete(path, response=, permissions=)
delete ==
    /\ Unconfigured
    /\ \E e \in Extras, r \in ShorterResponseValues :
        Configure("delete", e[1], methods_of_delete, r, e[2])

\* Route.generic(path, methods=, response=, permissions=)
generic ==
    /\ Unconfigured
    /\ \E e \in Extras, a \in GenericArgs :
        Configure("generic", e[1], a[1], a[2], e[2])

\* decorator(view_func): the closure applied to one more handler of the class
decorate ==
    /\ decorator # NoDecorator
    /\ Cardinality(DOMAIN routes) < MaxRoutes
    /\ \E h \in Handlers, order \in RejectedOrders(decorator.methods) :
        /\ h.name \notin DOMAIN routes
        /\ LET out == _create_route_function(h, decorator.path, decorator.methods,
                          decorator.response, decorator.permissions, order)
           IN  /\ last' = WithSteps(out, evaluation_steps(h, decorator.methods,
                                                         decorator.response))
               /\ routes' = IF out.status = "returned"
                            THEN [n \in (DOMAIN routes) \cup {h.name} |->
                                    IF n = h.name THEN out.value ELSE routes[n]]
                            ELSE routes
    /\ UNCHANGED decorator

Next == get \/ post \/ put \/ patch \/ delete \/ generic \/ decorate

Spec == Init /\ [][Next]_vars

TypeOK ==
    /\ decorator.factory \in {"none", "get", "post", "put", "patch", "delete", "generic"}
    /\ DOMAIN routes \subseteq HandlerNames
    /\ last.status \in {"none", "returned", "raised"}

(***************************************************************************)
(* Vocabulary of the properties.                                           *)
(***************************************************************************)
\* the closure has been applied at least once
Applied == last.status # "none"
Built == last.status = "returned"
Failed == last.status = "raised"

\* the route parameters of the descriptor built by the last application
Stored == last.value.route.route_params

AllowedVerbs == {"GET", "POST", "PUT", "PATCH", "DELETE"}

\* the methods argument is a list of strings
ListOfStrs(m) == m.kind = "list" /\ \A i \in 1..Len(m.items) : m.items[i].type = "str"

\* the upper-cased tokens of a methods argument
UpperSet(m) == {upper(m.items[i].text) : i \in 1..Len(m.items)}

IsMethodsMustBeList(o) ==
    /\ o.status = "raised"
    /\ o.exc = "RouteInvalidParameterException"
    /\ o.msg.text = "methods must be a list"

IsMethodNotAllowed(o) ==
    /\ o.status = "raised"
    /\ o.exc = "RouteInvalidParameterException"
    /\ o.msg.text = "Method {} not allowed"

IsInvalidResponse(o) ==
    /\ o.status = "raised"
    /\ o.exc = "RouteInvalidParameterException"
    /\ o.msg.text = "Invalid response configuration: {}"

\* what one element of a response list contributes to the merged mapping
Contribution(item) ==
    CASE item.kind \in {"typed_class", "typed_instance"} ->
            [k \in {item.status_code} |-> item.schema]
      [] item.kind = "dict" -> item.map
      [] item.kind = "tuple" /\ Len(item.elems) >= 2 ->
            [k \in {item.elems[1]} |-> item.elems[2]]
      [] OTHER -> EmptyDict

ShortTuple(item) == item.kind = "tuple" /\ Len(item.elems) < 2

MethodsAccepted == ListOfStrs(decorator.methods) /\ UpperSet(decorator.methods) \subseteq AllowedVerbs

(***************************************************************************)
(* C1: a methods list whose upper-cased entries are all allowed verbs is   *)
(* accepted: no methods error is raised, construction succeeds (whenever   *)
(* the response is not a list, which alone can still be rejected), and the *)
(* stored verbs, as a set, are the upper-cased input entries.              *)
(***************************************************************************)
C1_AllowedVerbsStored ==
    (Applied /\ MethodsAccepted) =>
        /\ ~IsMethodsMustBeList(last)
        /\ ~IsMethodNotAllowed(last)
        /\ decorator.response.kind # "list" => Built
        /\ Built => Range(Stored.methods) = UpperSet(decorator.methods)

C1_Witness ==
    /\ decorator # NoDecorator
    /\ decorator.methods = MethodsArg("list", Strs(<<"post", "GET">>))
    /\ Built
    /\ Range(Stored.methods) = {"GET", "POST"}

(***************************************************************************)
(* C2: a methods list of strings with at least one entry that is not an    *)
(* allowed verb once upper-cased fails with RouteInvalidParameterException,*)
(* and the message lists every rejected verb (upper-cased, each once, in   *)
(* some order), not only the first.                                        *)
(***************************************************************************)
C2_EveryRejectedVerbListed ==
    (Applied /\ ListOfStrs(decorator.methods)
        /\ ~(UpperSet(decorator.methods) \subseteq AllowedVerbs)) =>
        /\ IsMethodNotAllowed(last)
        /\ Range(last.msg.joined) = UpperSet(decorator.methods) \ AllowedVerbs
        /\ Len(last.msg.joined) = Cardinality(UpperSet(decorator.methods) \ AllowedVerbs)

C2_Witness ==
    /\ decorator # NoDecorator
    /\ decorator.methods = MethodsArg("list", Strs(<<"FOO", "bar">>))
    /\ IsMethodNotAllowed(last)
    /\ last.msg.joined = <<"BAR", "FOO">>

(***************************************************************************)
(* C3: the methods of every constructed descriptor are a non-empty set of  *)
(* allowed verbs.                                                          *)
(***************************************************************************)
C3_MethodsNonEmptyAllowed ==
    Built =>
        /\ Range(Stored.methods) # {}
        /\ Range(Stored.methods) \subseteq AllowedVerbs

(***************************************************************************)
(* C4 as stated: a methods argument that is a single value (a str, None)   *)
(* fails with the invalid-parameter error, and every sequence of verbs (a  *)
(* list, a tuple) passes the check.                                        *)
(***************************************************************************)
C4_EverySequencePasses ==
    Applied =>
        /\ decorator.methods.kind \in {"str", "None"} =>
                IsMethodsMustBeList(last)
        /\ decorator.methods.kind \in {"list", "tuple"} =>
                ~IsMethodsMustBeList(last)

(***************************************************************************)
(* C4 amended: a methods argument that is not a list (a tuple, a str and   *)
(* None included) fails with "methods must be a list"; every list passes   *)
(* that check.                                                             *)
(***************************************************************************)
C4_OnlyListsPass ==
    Applied =>
        /\ decorator.methods.kind # "list" => IsMethodsMustBeList(last)
        /\ decorator.methods.kind = "list" => ~IsMethodsMustBeList(last)

C4_Witness ==
    /\ decorator # NoDecorator
    /\ decorator.methods = MethodsArg("tuple", Strs(<<"GET">>))
    /\ IsMethodsMustBeList(last)

(***************************************************************************)
(* C5: a response list is stored as the left-to-right merge of what its    *)
(* elements contribute: every status code contributed by any element is    *)
(* present, and a code contributed by several elements carries the schema  *)
(* of the last of them.                                                    *)
(***************************************************************************)
C5_LastWriteWinsMerge ==
    (Built /\ decorator.response.kind = "list") =>
        LET items == decorator.response.items
            has(k) == {i \in 1..Len(items) : k \in DOMAIN Contribution(items[i])}
            latest(k) == CHOOSE i \in has(k) : \A j \in has(k) : j <= i
        IN  /\ Stored.response.kind = "dict"
            /\ DOMAIN Stored.response.map =
                    UNION {DOMAIN Contribution(items[i]) : i \in 1..Len(items)}
            /\ \A k \in DOMAIN Stored.response.map :
                    Stored.response.map[k] = Contribution(items[latest(k)])[k]

C5_Witness ==
    /\ Built
    /\ decorator.response =
            List(<<Dict(D200A), Dict(D200B), TypedClass(404, "SchemaC")>>)
    /\ Stored.response.kind = "dict"
    /\ DOMAIN Stored.response.map = {200, 404}
    /\ Stored.response.map[200] = "SchemaB"
    /\ Stored.response.map[404] = "SchemaC"

(***************************************************************************)
(* C6: with accepted methods, a response list fails with the               *)
(* invalid-parameter error exactly when no element contributes an entry,   *)
(* the error echoing the list; an element that is no typed response,       *)
(* mapping or tuple is skipped, so a list holding one next to contributing *)
(* elements is built from the others.  A response that is not a list never *)
(* raises this error.                                                      *)
(***************************************************************************)
C6_EmptyNormalizationFails ==
    (Applied /\ MethodsAccepted) =>
        /\ decorator.response.kind = "list" =>
            LET items == decorator.response.items
                skipped == {i \in 1..Len(items) :
                    items[i].kind \notin {"typed_class", "typed_instance", "dict", "tuple"}}
            IN  /\ IsInvalidResponse(last) <=>
                        \A i \in 1..Len(items) : Contribution(items[i]) = EmptyDict
                                                    /\ ~ShortTuple(items[i])
                /\ IsInvalidResponse(last) => last.msg.response = decorator.response
                /\ ( /\ \E i \in 1..Len(items) : Contribution(items[i]) # EmptyDict
                     /\ \A i \in 1..Len(items) : ~ShortTuple(items[i]) ) => Built
                /\ Built => \A k \in DOMAIN Stored.response.map :
                        \E i \in (1..Len(items)) \ skipped :
                            k \in DOMAIN Contribution(items[i])
        /\ decorator.response.kind # "list" => ~IsInvalidResponse(last)

C6_Witness ==
    /\ decorator # NoDecorator
    /\ decorator.response = List(<<None>>)
    /\ MethodsAccepted
    /\ IsInvalidResponse(last)
    /\ last.msg.response = List(<<None>>)

(***************************************************************************)
(* C7 as stated: with response left unset, the built descriptor's response *)
(* is the handler's return annotation T (as typing.get_type_hints resolves *)
(* it) when there is one, and the unset sentinel when there is none.       *)
(***************************************************************************)
C7_ResponseIsAnnotation ==
    (Built /\ decorator.response = NOT_SET) =>
        LET h == last.value.route.view_func IN
        IF h.annotation.kind = "absent"
        THEN Stored.response = NOT_SET
        ELSE Stored.response = return_hint(h)

(***************************************************************************)
(* C7 amended: with response left unset, the built descriptor's response   *)
(* is the normalisation of the resolved return annotation T: the mapping   *)
(* {T.status_code: T.get_schema()} when T is a typed-response class, T     *)
(* itself otherwise; with no annotation it is the unset sentinel.          *)
(***************************************************************************)
C7_ResponseIsNormalizedAnnotation ==
    (Built /\ decorator.response = NOT_SET) =>
        LET h == last.value.route.view_func
            a == h.annotation
        IN  CASE a.kind = "absent" -> Stored.response = NOT_SET
              [] a.kind = "typed_class" ->
                    /\ Stored.response.kind = "dict"
                    /\ DOMAIN Stored.response.map = {a.status_code}
                    /\ Stored.response.map[a.status_code] = a.schema
              [] a.kind = "forward_ref" ->
                    Stored.response = [kind |-> "schema", name |-> a.name]
              [] a.kind = "None" -> Stored.response = [kind |-> "NoneType"]
              [] OTHER -> Stored.response = a

C7_Witness ==
    /\ Built
    /\ decorator.response = NOT_SET
    /\ last.value.route.view_func.annotation = TypedClass(404, "SchemaC")
    /\ Stored.response = Dict([k \in {404} |-> "SchemaC"])

(***************************************************************************)
(* C8: the class of the route function returned for a handler is           *)
(* AsyncRouteFunction exactly when the handler is a coroutine function and *)
(* RouteFunction otherwise, for every factory and configuration; the route *)
(* function wraps the descriptor built for that handler, whose is_async    *)
(* flag is the handler's mode.                                             *)
(***************************************************************************)
C8_VariantFollowsHandler ==
    /\ \A n \in DOMAIN routes :
        LET h == CHOOSE x \in Handlers : x.name = n IN
        /\ routes[n].route.view_func = h
        /\ routes[n].route.is_async = h.coroutine
        /\ routes[n].class = IF h.coroutine THEN "AsyncRouteFunction"
                                           ELSE "RouteFunction"
    /\ Built => routes[last.value.route.view_func.name] = last.value

C8_Witness ==
    /\ Built
    /\ decorator.factory = "post"
    /\ last.value.route.view_func.coroutine
    /\ last.value.class = "AsyncRouteFunction"
    /\ \E n \in DOMAIN routes : routes[n].class = "RouteFunction"

(***************************************************************************)
(* C9: a descriptor built through a per-verb factory has exactly that      *)
(* factory's verb as its methods, whatever response, path and permissions  *)
(* are passed, and the factory never fails on methods; a descriptor built  *)
(* through the generic factory has, as a set, the upper-cased verbs of the *)
(* caller's list, none added and none dropped.                             *)
(***************************************************************************)
VerbOfFactory ==
    [get |-> "GET", post |-> "POST", put |-> "PUT", patch |-> "PATCH",
     delete |-> "DELETE"]

C9_FactoryFixesVerb ==
    Applied =>
        /\ decorator.factory \in DOMAIN VerbOfFactory =>
            /\ ~IsMethodsMustBeList(last) /\ ~IsMethodNotAllowed(last)
            /\ Built => /\ Stored.methods = <<VerbOfFactory[decorator.factory]>>
                        /\ Stored.path = decorator.path
                        /\ last.value.route.permissions = decorator.permissions
        /\ (decorator.factory = "generic" /\ Built) =>
            /\ \A i \in 1..Len(decorator.methods.items) :
                    upper(decorator.methods.items[i].text) \in Range(Stored.methods)
            /\ \A v \in Range(Stored.methods) :
                    \E i \in 1..Len(decorator.methods.items) :
                        upper(decorator.methods.items[i].text) = v

C9_Witness ==
    /\ Built
    /\ decorator.factory = "delete"
    /\ decorator.path = "/items"
    /\ decorator.response.kind = "list"
    /\ Stored.methods = <<"DELETE">>

(***************************************************************************)
(* C10: applying a decorator raises only RouteInvalidParameterException,   *)
(* and only because methods is not a sequence, methods holds a verb that   *)
(* is not allowed, or a response list normalises to an empty mapping.      *)
(***************************************************************************)
C10_OnlyInvalidParameterErrors ==
    Failed =>
        /\ last.exc = "RouteInvalidParameterException"
        /\ \/ IsMethodsMustBeList(last) /\ decorator.methods.kind # "list"
           \/ IsMethodNotAllowed(last)
                /\ \E i \in 1..Len(decorator.methods.items) :
                        upper(decorator.methods.items[i].text) \notin AllowedVerbs
           \/ IsInvalidResponse(last) /\ decorator.response.kind = "list"

(***************************************************************************)
(* C11: with accepted methods, a response that is a single value and is no *)
(* typed response, no list and not the unset sentinel is stored unchanged  *)
(* (a mapping {200: A} is stored as exactly {200: A}); and the response    *)
(* stored by any successful construction is itself such a value or the     *)
(* unset sentinel, so decorating the same handler again with it as         *)
(* response stores the same response.                                      *)
(***************************************************************************)
C11_SingleValuePassedThrough ==
    /\ (Applied /\ MethodsAccepted
            /\ decorator.response.kind \notin
                    {"typed_class", "typed_instance", "list", "NOT_SET"}) =>
        /\ Built
        /\ Stored.response = decorator.response
    /\ Built =>
        /\ Stored.response.kind \notin {"typed_class", "typed_instance", "list"}
        /\ LET again == _create_route_function(last.value.route.view_func,
                            Stored.path, MethodsArg("list", Strs(Stored.methods)),
                            Stored.response, last.value.route.permissions, <<>>)
           IN  /\ again.status = "returned"
               /\ again.value.route.route_params.response = Stored.response

C11_Witness ==
    /\ Built
    /\ decorator.response = Dict(D200A)
    /\ Stored.response = Dict(D200A)
    /\ DOMAIN Stored.response.map = {200}
    /\ Stored.response.map[200] = "SchemaA"

(***************************************************************************)
(* C12: with accepted methods, a response that is a single typed response, *)
(* the class or an instance of it, is stored as the one-entry mapping      *)
(* {status_code: schema} of its declared status code and schema, the same  *)
(* mapping for the class form and the instance form.                       *)
(***************************************************************************)
C12_TypedResponseBecomesMapping ==
    (Applied /\ MethodsAccepted
        /\ decorator.response.kind \in {"typed_class", "typed_instance"}) =>
        /\ Built
        /\ Stored.response.kind = "dict"
        /\ DOMAIN Stored.response.map = {decorator.response.status_code}
        /\ Stored.response.map[decorator.response.status_code] =
                decorator.response.schema

C12_Witness ==
    /\ Built
    /\ decorator.response = TypedInstance(404, "SchemaC")
    /\ Stored.response = Dict([k \in {404} |-> "SchemaC"])

(***************************************************************************)
(* C13: applying a closure is all-or-nothing.  When its methods or its     *)
(* response configuration is invalid the application raises and no route   *)
(* function is added, nothing being defaulted; otherwise it returns and    *)
(* adds exactly one route function, for the handler it was applied to,     *)
(* and the route functions of the handlers decorated before are unchanged. *)
(***************************************************************************)
ConfigRejected ==
    \/ ~MethodsAccepted
    \/ /\ decorator.response.kind = "list"
       /\ \/ \E i \in 1..Len(decorator.response.items) :
                ShortTuple(decorator.response.items[i])
          \/ \A i \in 1..Len(decorator.response.items) :
                Contribution(decorator.response.items[i]) = EmptyDict

C13_AllOrNothing ==
    [][ (decorator # NoDecorator /\ decorator' = decorator) =>
            IF ConfigRejected
            THEN /\ last'.status = "raised"
                 /\ routes' = routes
                 /\ routes = NoRoutes
            ELSE /\ last'.status = "returned"
                 /\ Cardinality(DOMAIN routes') = Cardinality(DOMAIN routes) + 1
                 /\ \E n \in (DOMAIN routes') \ (DOMAIN routes) :
                        /\ DOMAIN routes' = (DOMAIN routes) \cup {n}
                        /\ routes'[n] = last'.value
                        /\ routes'[n].route.view_func.name = n
                 /\ \A m \in DOMAIN routes : routes'[m] = routes[m]
      ]_vars

C13_Witness ==
    /\ Built
    /\ Cardinality(DOMAIN routes) = 2
    /\ \E n, m \in DOMAIN routes :
        /\ n # m
        /\ routes[m] = last.value
        /\ routes[n] # routes[m]
        /\ routes[n].route.view_func # routes[m].route.view_func
        /\ routes[n].route.route_params.methods = routes[m].route.route_params.methods

(***************************************************************************)
(* C14: validation is ordered.  The list test on methods comes first, then *)
(* the upper-casing and the allowed-verb test, then the normalisation of   *)
(* the response, and only then is the handler's mode inspected; with       *)
(* response unset the return annotation is looked up before all of them.   *)
(* So a methods argument that is not a list is reported as "methods must   *)
(* be a list" even if it holds rejected verbs, a list with rejected verbs  *)
(* is reported as such even if the response is invalid too, and an error   *)
(* of the response is only ever reported for accepted methods.             *)
(***************************************************************************)
StatementOrder ==
    <<"get_type_hints", "isinstance_list", "upper", "not_valid_methods",
      "normalize_response", "RouteParameter", "is_async", "route_function_class">>

PositionOf(st) == CHOOSE i \in 1..Len(StatementOrder) : StatementOrder[i] = st

C14_ValidationOrdered ==
    Applied =>
        /\ decorator.methods.kind # "list" =>
            /\ IsMethodsMustBeList(last)
            /\ last.steps[Len(last.steps)] = "isinstance_list"
        /\ (ListOfStrs(decorator.methods)
                /\ ~(UpperSet(decorator.methods) \subseteq AllowedVerbs)) =>
            /\ IsMethodNotAllowed(last)
            /\ last.steps[Len(last.steps)] = "not_valid_methods"
        /\ (decorator.methods.kind = "list" /\ ~ListOfStrs(decorator.methods)) =>
            /\ Failed
            /\ last.exc = "AttributeError"
            /\ last.steps[Len(last.steps)] = "upper"
        /\ (Failed /\ (IsInvalidResponse(last) \/ last.exc = "IndexError")) =>
            /\ MethodsAccepted
            /\ last.steps[Len(last.steps)] = "normalize_response"
        /\ \A i \in 1..(Len(last.steps) - 1) :
                PositionOf(last.steps[i]) < PositionOf(last.steps[i + 1])
        /\ decorator.response = NOT_SET <=> last.steps[1] = "get_type_hints"
        /\ Built <=> "is_async" \in Range(last.steps)
        /\ "is_async" \in Range(last.steps) =>
                {"isinstance_list", "not_valid_methods", "normalize_response"}
                    \subseteq Range(last.steps)

C14_Witness ==
    /\ decorator # NoDecorator
    /\ decorator.methods = MethodsArg("list", Strs(<<"FOO">>))
    /\ decorator.response = List(<<>>)
    /\ IsMethodNotAllowed(last)
    /\ last.steps = <<"isinstance_list", "upper", "not_valid_methods">>

====
